---- MODULE Spec2Model ----
(***************************************************************************)
(* Factory inventory ledger (src/inventory_app.py).                        *)
(*                                                                         *)
(* State: the two persisted files (transactions, masters) and the clock.   *)
(* Every action is one run of main() in which one button was pressed:      *)
(* load_transactions, the date clean-up, the handler's rows, save_data.    *)
(*                                                                         *)
(* Encodings.                                                              *)
(*  - A missing cell (NaN after the CSV round trip, which also turns an    *)
(*    empty string into NaN) is NA for text, NoDate for a date, NoMill for *)
(*    Ball_Mill_ID, NoId for an identifier. NaToken is a text the CSV      *)
(*    reader takes for a missing value although it was written as text.    *)
(*  - Quantities are integers: multiples of the smallest step of the       *)
(*    number inputs.                                                       *)
(*  - An identifier "PFX-nnn", "PFX-nnn-IN-k", "PFX-nnn-OUT" or "PFX-<ts>" *)
(*    is the record [pfx, num, role, idx]; IdLess is the order of the      *)
(*    strings (all numbers of one prefix have the same width within the    *)
(*    bounds: three digits, or the digits of a timestamp).                 *)
(*  - A mill "Ball Mill i" is the number i.                                *)
(*                                                                         *)
(* Beside the files and the clock the state records what the claims speak  *)
(* of: `last` (the handler that ran last and whether it saved), `edits`    *)
(* (the number of row edits saved), `editor` (the table the last handler   *)
(* read from a data editor: the batch inputs or a daily log; for a master  *)
(* add, the name and opening quantity of its form) and `sess` (the script  *)
(* runs of the browser sessions and the rows they have appended).          *)
(***************************************************************************)
EXTENDS Integers, Sequences, FiniteSets, TLC

VARIABLES trans, masters, now, edits, last, editor, sess

vars == <<trans, masters, now, edits, last, editor, sess>>

\* ---------------------------------------------------------------- bounds
MaxDate == 2
MaxMill == 2
MaxQty == 1
MaxNow == 1
MaxRows == 3
MaxMasters == 4
MaxEdits == 1
MaxPotFilled == 1
MaxSessions == 2

\* ------------------------------------------------------------- encodings
NA == ""
NoDate == 0
NoMill == 0
NoId == [pfx |-> "", num |-> 0, role |-> "", idx |-> 0]
NaToken == "NA"

Dates == 1..MaxDate
mills == 1..MaxMill
QtyInputs == 0..MaxQty
Lumps == "UF Lumps (Batches)"
MasterTypes == {"Material", "Grade", "Supplier", "Customer"}
MasterNames == {"G1"}

SeqId(prefix, n) == [pfx |-> prefix, num |-> n, role |-> "", idx |-> 0]
SubId(parent, r, k) == [parent EXCEPT !.role = r, !.idx = k]

\* The order of the identifier prefixes as strings.
PrefixOrder == <<"", "ADD", "BAT", "FIN", "MIL", "OPN", "POT", "PUR", "SAL">>
PfxRank(p) == CHOOSE k \in DOMAIN PrefixOrder : PrefixOrder[k] = p
RoleOrder == <<"", "IN", "OUT">>
RoleRank(r) == CHOOSE k \in DOMAIN RoleOrder : RoleOrder[k] = r

\* a < b as Python compares the two identifier strings.
IdLess(a, b) ==
    \/ PfxRank(a.pfx) < PfxRank(b.pfx)
    \/ /\ a.pfx = b.pfx
       /\ \/ a.num < b.num
          \/ /\ a.num = b.num
             /\ \/ RoleRank(a.role) < RoleRank(b.role)
                \/ a.role = b.role /\ a.idx < b.idx

\* One row of a new-entries frame; the columns an entry does not set are NaN.
Entry(date, type, id, party, item, qty, unit, batch, mill, status, notes) ==
    [Date |-> date, Type |-> type, ID |-> id, Party_Name |-> party,
     Item_Name |-> item, Quantity |-> qty, Unit |-> unit, Batch_ID |-> batch,
     Ball_Mill_ID |-> mill, Status |-> status, Notes |-> notes]

Abs(x) == IF x < 0 THEN -x ELSE x

RECURSIVE Unique(_)
Unique(s) ==
    IF s = <<>> THEN <<>>
    ELSE LET h == Unique(SubSeq(s, 1, Len(s) - 1))
             x == s[Len(s)]
         IN IF \E i \in DOMAIN h : h[i] = x THEN h ELSE Append(h, x)

Range(s) == {s[i] : i \in DOMAIN s}

\* ------------------------------------------------------------- data layer
\* pd.read_csv of a text cell: the default na_values ("NA" among them) are
\* read as NaN, like the empty cell that to_csv writes for NaN.
ReadText(cell) == IF cell = NaToken THEN NA ELSE cell

load_transactions(file) ==
    [i \in DOMAIN file |->
       [file[i] EXCEPT !.Party_Name = ReadText(@), !.Item_Name = ReadText(@)]]

load_masters(file) ==
    [i \in DOMAIN file |-> [Type |-> file[i].Type, Name |-> ReadText(file[i].Name)]]

\* main(): the ledger is loaded and the rows whose date does not parse are
\* dropped from the frame. (The quantities of the model are always numeric, so
\* the coercion of Quantity changes nothing.)
Clean(file) == SelectSeq(load_transactions(file), LAMBDA r : r.Date # NoDate)

\* masters[masters['Type'] == t]['Name'].unique().tolist(), of the masters file m.
NamesOf(m, t) ==
    LET sel == SelectSeq(load_masters(m), LAMBDA e : e.Type = t)
    IN Unique([i \in DOMAIN sel |-> sel[i].Name])

raw_materials(m) == NamesOf(m, "Material")
grades(m) == NamesOf(m, "Grade")
suppliers(m) == NamesOf(m, "Supplier")
customers(m) == NamesOf(m, "Customer")

\* A selectbox over `options` returns one of them, or None when there is none.
Selectbox(options) == IF options = <<>> THEN {NA} ELSE Range(options)

\* get_next_id without the "+ 1": the count itself is the next number.
get_next_id_count_only(df, type_prefix) ==
    LET type_rows == {i \in DOMAIN df : df[i].ID.pfx = type_prefix}
    IN IF type_rows = {} THEN SeqId(type_prefix, 1)
       ELSE SeqId(type_prefix, Cardinality(type_rows))

\* get_next_id numbering from the largest number in use instead of the count.
get_next_id_max_based(df, type_prefix) ==
    LET type_rows == {i \in DOMAIN df : df[i].ID.pfx = type_prefix}
        nums == {df[i].ID.num : i \in type_rows}
    IN IF type_rows = {} THEN SeqId(type_prefix, 1)
       ELSE SeqId(type_prefix, (CHOOSE n \in nums : \A k \in nums : k <= n) + 1)

get_next_id(df, type_prefix) ==
    LET type_rows == {i \in DOMAIN df : df[i].ID.pfx = type_prefix}
    IN IF type_rows = {} THEN SeqId(type_prefix, 1)
       ELSE SeqId(type_prefix, Cardinality(type_rows) + 1)

\* ------------------------------------------------------------ mill status
\* Row i comes before row j in df.sort_values(by=['Date', 'ID']) (stable).
SortsBefore(df, i, j) ==
    \/ df[i].Date < df[j].Date
    \/ /\ df[i].Date = df[j].Date
       /\ \/ IdLess(df[i].ID, df[j].ID)
          \/ df[i].ID = df[j].ID /\ i < j

\* The rows of every mill taken as the mill's own, in sorted order.
this_mill_entries_all(df, mill) ==
    LET S == {i \in DOMAIN df : df[i].Ball_Mill_ID \in mills}
    IN [n \in 1..Cardinality(S) |->
          CHOOSE i \in S : Cardinality({j \in S : SortsBefore(df, j, i)}) = n - 1]

\* this_mill_entries: the index labels of the mill's rows, in sorted order.
this_mill_entries(df, mill) ==
    LET S == {i \in DOMAIN df : df[i].Ball_Mill_ID = mill}
    IN [n \in 1..Cardinality(S) |->
          CHOOSE i \in S : Cardinality({j \in S : SortsBefore(df, j, i)}) = n - 1]

\* The type test as an equality with the mill's own production type.
HasProduction_mill_only(type) == type = "Mill_Production"

\* "Production" in type: the types of the vocabulary that contain the word.
HasProduction(type) == type \in {"Batch_Production", "Mill_Production", "Pot_Production"}

\* The `if` of the loop body: the mill is open.
MillIsOpen(df, mill) ==
    LET e == this_mill_entries(df, mill)
    IN /\ e # <<>>
       /\ LET last_entry == df[e[Len(e)]]
          IN ~HasProduction(last_entry.Type) /\ last_entry.Status # "Completed"

open_mills(df) == {m \in mills : MillIsOpen(df, m)}

\* available_mills without the filter on open_mills.
available_mills_unfiltered(df) == mills

available_mills(df) == {m \in mills : m \notin open_mills(df)}

\* display_df of one open mill that has a Mill_Start row.
MillDisplay(df, mill) ==
    LET e == this_mill_entries(df, mill)
        starts == {n \in DOMAIN e : df[e[n]].Type = "Mill_Start"}
        last_start == CHOOSE n \in starts : \A k \in starts : k <= n
    IN [n \in 1..(Len(e) - last_start + 1) |->
          LET r == df[e[last_start + n - 1]]
          IN [Date |-> r.Date, Item_Name |-> r.Item_Name,
              Quantity |-> Abs(r.Quantity), Unit |-> r.Unit]]

ContentKeys(df) ==
    {m \in open_mills(df) :
        \E i \in DOMAIN df : df[i].Ball_Mill_ID = m /\ df[i].Type = "Mill_Start"}

mill_contents(df) == [m \in ContentKeys(df) |-> MillDisplay(df, m)]

\* ---------------------------------------------------------- closing stock
RECURSIVE SumQuantity(_)
SumQuantity(rows) ==
    IF rows = <<>> THEN 0 ELSE rows[1].Quantity + SumQuantity(Tail(rows))

\* The as-of filter with a strict comparison.
filtered_stock_df_strict(df, view_date) == SelectSeq(df, LAMBDA r : r.Date < view_date)

filtered_stock_df(df, view_date) == SelectSeq(df, LAMBDA r : r.Date <= view_date)

\* groupby("Item_Name")[['Quantity']].sum(): one total per item name; a row
\* without an item name belongs to no group.
stock_df(df, view_date) ==
    LET f == filtered_stock_df(df, view_date)
        items == {f[i].Item_Name : i \in DOMAIN f} \ {NA}
    IN [it \in items |-> SumQuantity(SelectSeq(f, LAMBDA r : r.Item_Name = it))]

RawBucket(df, view_date, m) ==
    {it \in DOMAIN stock_df(df, view_date) : it \in Range(raw_materials(m))}

\* The second table filtered by the grade list instead of the complement.
OtherBucket_grades_only(df, view_date, m) ==
    {it \in DOMAIN stock_df(df, view_date) : it \in Range(grades(m))}

OtherBucket(df, view_date, m) ==
    {it \in DOMAIN stock_df(df, view_date) : ~(it \in Range(raw_materials(m)))}

\* ------------------------------------------------------------------ state
\* The browser sessions the one server process serves, and a script run that
\* has not loaded the ledger.
Sessions == 1..MaxSessions
IdleRun == [pc |-> "idle", df |-> <<>>, saved |-> <<>>]

\* The masters file of an installation in use: a material, a supplier and a
\* customer, each added with opening quantity 0 (which writes no ledger row).
SeedMasters ==
    <<[Type |-> "Material", Name |-> "Urea"],
      [Type |-> "Supplier", Name |-> "S1"],
      [Type |-> "Customer", Name |-> "C1"]>>

Init ==
    /\ trans = <<>>
    /\ masters = SeedMasters
    /\ now = 0
    /\ edits = 0
    /\ last = [op |-> "Start", ok |-> TRUE, mill |-> NoMill]
    /\ editor = <<>>
    /\ sess = [s \in Sessions |-> IdleRun]

\* pd.concat([df, new_entries]) and save_data(df, TRANS_FILE), in a handler
\* that read `table` from its data editor.
RecordWith(op, mill, df, new_entries, table) ==
    /\ Len(df) + Len(new_entries) <= MaxRows
    /\ trans' = df \o new_entries
    /\ last' = [op |-> op, ok |-> TRUE, mill |-> mill]
    /\ editor' = table
    /\ UNCHANGED <<masters, now, edits, sess>>

Record(op, mill, df, new_entries) == RecordWith(op, mill, df, new_entries, <<>>)

\* A handler that has appended a row of its own before it rejects the input.
Reject_after_append(op) ==
    /\ Len(trans) < MaxRows
    /\ trans' = Append(trans, Entry(1, "Batch_Consumption", NoId, NA, NA, 0, NA,
                                    NoId, NoMill, NA, NA))
    /\ last' = [op |-> op, ok |-> FALSE, mill |-> NoMill]
    /\ editor' = <<>>
    /\ UNCHANGED <<masters, now, edits, sess>>

\* The handler reports the input and saves nothing.
Reject(op) ==
    /\ last' = [op |-> op, ok |-> FALSE, mill |-> NoMill]
    /\ editor' = <<>>
    /\ UNCHANGED <<trans, masters, now, edits, sess>>

\* The clock of datetime.now() advances by a second.
Tick ==
    /\ now < MaxNow
    /\ now' = now + 1
    /\ UNCHANGED <<trans, masters, edits, last, editor, sess>>

\* --------------------------------------------------------------- purchase
PurchaseUnits == {"Kg"}

SavePurchase ==
    LET df == Clean(trans) IN
    /\ suppliers(masters) # <<>> /\ raw_materials(masters) # <<>>
    /\ \E p_date \in Dates, supplier \in Range(suppliers(masters)),
          item \in Range(raw_materials(masters)), qty \in QtyInputs,
          unit \in PurchaseUnits :
          Record("Purchase", NoMill, df,
                 <<Entry(p_date, "Purchase", get_next_id(df, "PUR"), supplier, item,
                         qty, unit, NoId, NoMill, "In Stock", NA)>>)

\* The Purchase workflow of one browser session as the two steps of its script
\* run, which the server runs in the session's own thread: main() loads the
\* ledger; later the handler appends to the frame it loaded and overwrites the
\* file. `saved` lists the rows the session's workflows have appended.
BeginRun(s) ==
    /\ sess[s].pc = "idle"
    /\ sess' = [sess EXCEPT ![s].pc = "loaded", ![s].df = Clean(trans)]
    /\ UNCHANGED <<trans, masters, now, edits, last, editor>>

SavePurchaseRun(s) ==
    LET df == sess[s].df IN
    /\ sess[s].pc = "loaded"
    /\ suppliers(masters) # <<>> /\ raw_materials(masters) # <<>>
    /\ Len(df) < MaxRows
    /\ \A t \in Sessions : Len(sess[t].saved) < MaxRows - 1
    /\ \E p_date \in Dates, supplier \in Range(suppliers(masters)),
          item \in Range(raw_materials(masters)), qty \in QtyInputs,
          unit \in PurchaseUnits :
          LET entry == Entry(p_date, "Purchase", get_next_id(df, "PUR"), supplier,
                             item, qty, unit, NoId, NoMill, "In Stock", NA)
          IN /\ trans' = Append(df, entry)
             /\ sess' = [sess EXCEPT ![s] = [pc |-> "idle", df |-> <<>>,
                                             saved |-> Append(sess[s].saved, entry)]]
    /\ last' = [op |-> "Purchase", ok |-> TRUE, mill |-> NoMill]
    /\ editor' = <<>>
    /\ UNCHANGED <<masters, now, edits>>

\* ------------------------------------------------------------------ sales
SaleCategories == {"Finished Grade", "Raw Material"}

RecordSale ==
    LET df == Clean(trans) IN
    /\ customers(masters) # <<>>
    /\ grades(masters) # <<>> \/ raw_materials(masters) # <<>>
    /\ \E sale_cat \in SaleCategories :
          LET item_list == IF sale_cat = "Finished Grade"
                           THEN grades(masters) ELSE raw_materials(masters)
              unit_sold == IF sale_cat = "Finished Grade" THEN "Bags" ELSE "Kg"
          IN IF item_list = <<>>
             THEN Reject("Sale")
             ELSE \E s_date \in Dates, cust \in Range(customers(masters)),
                     item_sold \in Range(item_list), qty_sold \in 1..MaxQty :
                    Record("Sale", NoMill, df,
                           <<Entry(s_date, "Sales", get_next_id(df, "SAL"), cust,
                                   item_sold, -qty_sold, unit_sold, NoId, NoMill,
                                   NA, NA)>>)

\* ------------------------------------------------------------ batch entry
\* The rows of the batch: one consumption per material entered above zero
\* (ID suffix: the material's 0-based row in the editor), then the production.
\* The rows of the batch with a consumption row for every material, also those
\* entered as zero.
BatchEntries_every_material(b_date, batch_id, mats, qtys, batches_made) ==
    [n \in DOMAIN mats |->
       Entry(b_date, "Batch_Consumption", SubId(batch_id, "IN", n - 1), NA,
             mats[n], -qtys[n], "Kg/L", batch_id, NoMill, NA, NA)]
    \o <<Entry(b_date, "Batch_Production", SubId(batch_id, "OUT", 0), NA, Lumps,
               batches_made, "Batches", batch_id, NoMill, NA, NA)>>

\* The rows of the batch without the production row.
BatchEntries_consumption_only(b_date, batch_id, mats, qtys, batches_made) ==
    LET used == SelectSeq([i \in DOMAIN mats |-> i], LAMBDA i : qtys[i] > 0)
    IN [n \in DOMAIN used |->
          Entry(b_date, "Batch_Consumption", SubId(batch_id, "IN", used[n] - 1), NA,
                mats[used[n]], -qtys[used[n]], "Kg/L", batch_id, NoMill, NA, NA)]

BatchEntries(b_date, batch_id, mats, qtys, batches_made) ==
    LET used == SelectSeq([i \in DOMAIN mats |-> i], LAMBDA i : qtys[i] > 0)
    IN [n \in DOMAIN used |->
          Entry(b_date, "Batch_Consumption", SubId(batch_id, "IN", used[n] - 1), NA,
                mats[used[n]], -qtys[used[n]], "Kg/L", batch_id, NoMill, NA, NA)]
       \o <<Entry(b_date, "Batch_Production", SubId(batch_id, "OUT", 0), NA, Lumps,
                  batches_made, "Batches", batch_id, NoMill, NA, NA)>>

\* The input editor of the batch page with the quantities typed in.
edited_input(mats, qtys) ==
    [i \in DOMAIN mats |-> [Item |-> mats[i], Quantity |-> qtys[i]]]

SaveBatch ==
    LET df == Clean(trans)
        mats == raw_materials(masters)
    IN
    /\ mats # <<>>
    /\ \E batches_made \in QtyInputs :
          IF batches_made > 0
          THEN \E b_date \in Dates, qtys \in [DOMAIN mats -> QtyInputs] :
                 RecordWith("Batch", NoMill, df,
                            BatchEntries(b_date, get_next_id(df, "BAT"), mats, qtys,
                                         batches_made),
                            edited_input(mats, qtys))
          ELSE Reject("Batch")

\* -------------------------------------------------------------- ball mill
\* The options of the "Select Empty Mill" and "Select Running Mill" boxes.
\* The start form offering every mill.
mill_select_options_all(df) == mills

mill_select_options(df) == available_mills(df)
active_mill_options(df) == open_mills(df)

StartMilling ==
    LET df == Clean(trans) IN
    \E m_date \in Dates, mill_select \in mill_select_options(df),
       batches_in \in QtyInputs :
       Record("MillStart", mill_select, df,
              <<Entry(m_date, "Mill_Start", SeqId("MIL", now), NA, Lumps,
                      -batches_in, "Batches", NoId, mill_select, "In Progress", NA)>>)

AddToMill ==
    LET df == Clean(trans) IN
    \E m_date \in Dates, active_mill \in active_mill_options(df),
       mat_item \in Selectbox(raw_materials(masters)), mat_qty \in QtyInputs :
       Record("MillAdd", active_mill, df,
              <<Entry(m_date, "Mill_Consumption", SeqId("ADD", now), NA, mat_item,
                      -mat_qty, "Kg", NoId, active_mill, NA, NA)>>)

FinishProcess ==
    LET df == Clean(trans) IN
    \E m_date \in Dates, active_mill \in active_mill_options(df),
       out_grade \in Selectbox(grades(masters)), bags \in 1..MaxQty :
       Record("MillFinish", active_mill, df,
              <<Entry(m_date, "Mill_Production", SeqId("FIN", now), NA, out_grade,
                      bags, "Bags", NoId, active_mill, "Completed", NA)>>)

\* ------------------------------------------------------------ pot (mixing)
NumPotRows == 3
PotUnits == {"Bags"}
BlankInput == [Item |-> NA, Quantity |-> 0]

\* The input editor as the user leaves it: its first n rows filled in, with
\* an item of the list that has a name.
PotTables(all_items) ==
    {[k \in 1..NumPotRows |-> IF k <= n THEN [Item |-> it, Quantity |-> q]
                               ELSE BlankInput] :
        n \in 0..MaxPotFilled, it \in Range(all_items) \ {NA}, q \in QtyInputs}

\* "Lumps" in row['Item']: of the item names of the model only Lumps has it.
HasLumps(item) == item = Lumps

PotEntries(p_date, pot_id, edited_inputs, out_item, out_qty, out_unit) ==
    LET used == SelectSeq([i \in DOMAIN edited_inputs |-> i],
                          LAMBDA i : edited_inputs[i].Item # NA
                                     /\ edited_inputs[i].Quantity > 0)
    IN [n \in DOMAIN used |->
          LET row == edited_inputs[used[n]]
              u == IF HasLumps(row.Item) THEN "Batches" ELSE "Kg/L"
          IN Entry(p_date, "Pot_Consumption", SubId(pot_id, "IN", used[n] - 1), NA,
                   row.Item, -row.Quantity, u, pot_id, NoMill, NA, NA)]
       \o (IF out_qty > 0
           THEN <<Entry(p_date, "Pot_Production", SubId(pot_id, "OUT", 0), NA,
                        out_item, out_qty, out_unit, pot_id, NoMill, NA, NA)>>
           ELSE <<>>)

\* Every new-entries list the Save Pot Mix handler can build on p_date.
PotOutcomes(df, m, p_date) ==
    LET all_items == raw_materials(m) \o grades(m) \o <<Lumps>>
    IN {PotEntries(p_date, get_next_id(df, "POT"), edited_inputs, out_item,
                   out_qty, out_unit) :
          edited_inputs \in PotTables(all_items),
          out_item \in Selectbox(grades(m)), out_qty \in QtyInputs,
          out_unit \in PotUnits}

SavePotMix ==
    LET df == Clean(trans) IN
    /\ raw_materials(masters) # <<>> \/ grades(masters) # <<>>
    /\ \E p_date \in Dates :
         \E new_entries \in PotOutcomes(df, masters, p_date) :
            IF new_entries # <<>>
            THEN Record("Pot", NoMill, df, new_entries)
            ELSE Reject("Pot")

\* ------------------------------------------------------------ master data
NameInputs == MasterNames \cup {NaToken} \cup {NA}

OpeningInputs(m_type) == IF m_type \in {"Material", "Grade"} THEN QtyInputs ELSE {0}

\* m_name and m_name not in masters[masters['Type'] == m_type]['Name'].values,
\* of the masters file m as it was loaded.
IsNewMaster(m, m_type, m_name) ==
    /\ m_name # NA
    /\ ~(\E i \in DOMAIN m :
           load_masters(m)[i].Type = m_type /\ load_masters(m)[i].Name = m_name)

AddMaster ==
    LET df == Clean(trans) IN
    \/ \E m_type \in MasterTypes, m_name \in NameInputs :
         /\ IsNewMaster(masters, m_type, m_name)
         /\ Len(masters) < MaxMasters
         /\ masters' = Append(load_masters(masters),
                              [Type |-> m_type, Name |-> m_name])
         /\ \E opening_stock \in OpeningInputs(m_type) :
              /\ editor' = <<[Item |-> m_name, Quantity |-> opening_stock]>>
              /\ IF opening_stock > 0
                 THEN /\ Len(df) < MaxRows
                      /\ \E today \in Dates :
                           trans' = Append(df,
                             Entry(today, "Opening Stock", get_next_id(df, "OPN"),
                                   NA, m_name, opening_stock,
                                   IF m_type = "Grade" THEN "Bags" ELSE "Kg",
                                   NoId, NoMill, "Stock In", "Initial Balance"))
                 ELSE trans' = trans
         /\ last' = [op |-> "AddMaster", ok |-> TRUE, mill |-> NoMill]
         /\ UNCHANGED <<now, edits, sess>>
    \/ /\ \E m_type \in MasterTypes, m_name \in NameInputs :
            ~IsNewMaster(masters, m_type, m_name)
       /\ Reject("AddMaster")

\* -------------------------------------------------------------- view data
\* The frames the user can leave in the full-view editor with one change:
\* a row deleted, or one cell of a row set.
EditedFrames(df) ==
    {SubSeq(df, 1, i - 1) \o SubSeq(df, i + 1, Len(df)) : i \in DOMAIN df}
    \cup {[df EXCEPT ![i].Ball_Mill_ID = m] : i \in DOMAIN df, m \in mills}
    \cup {[df EXCEPT ![i].Status = "Completed"] : i \in DOMAIN df}
    \cup {[df EXCEPT ![i].Date = NoDate] : i \in DOMAIN df}

SaveDatabaseChanges ==
    LET df == Clean(trans) IN
    /\ edits < MaxEdits
    /\ \E edited_df \in EditedFrames(df) :
         /\ edited_df # df
         /\ trans' = edited_df
         /\ edits' = edits + 1
         /\ last' = [op |-> "ViewData", ok |-> TRUE, mill |-> NoMill]
         /\ editor' = <<>>
         /\ UNCHANGED <<masters, now, sess>>

\* ------------------------------------------------------------ daily logs
\* DataFrame.update copies the cells of `that` which are not NaN; the ID is
\* the index the two frames are aligned on.
UpdateRow(this, that) ==
    [Date |-> IF that.Date # NoDate THEN that.Date ELSE this.Date,
     Type |-> IF that.Type # NA THEN that.Type ELSE this.Type,
     ID |-> this.ID,
     Party_Name |-> IF that.Party_Name # NA THEN that.Party_Name ELSE this.Party_Name,
     Item_Name |-> IF that.Item_Name # NA THEN that.Item_Name ELSE this.Item_Name,
     Quantity |-> that.Quantity,
     Unit |-> IF that.Unit # NA THEN that.Unit ELSE this.Unit,
     Batch_ID |-> IF that.Batch_ID # NoId THEN that.Batch_ID ELSE this.Batch_ID,
     Ball_Mill_ID |-> IF that.Ball_Mill_ID # NoMill THEN that.Ball_Mill_ID
                      ELSE this.Ball_Mill_ID,
     Status |-> IF that.Status # NA THEN that.Status ELSE this.Status,
     Notes |-> IF that.Notes # NA THEN that.Notes ELSE this.Notes]

\* DataFrame.update reindexes the subset by the ledger's ids, which needs the
\* ids of the subset to be distinct (it raises otherwise).
CanReindex(edited_subset) ==
    \A i, j \in DOMAIN edited_subset :
       i # j => edited_subset[i].ID # edited_subset[j].ID

\* set_index("ID"), update, reset_index: the rows keep their places (the ID
\* column comes first afterwards; the columns are read by name).
update_database_from_editor(original_df, edited_subset) ==
    [i \in DOMAIN original_df |->
       LET hits == {j \in DOMAIN edited_subset :
                      edited_subset[j].ID = original_df[i].ID}
       IN IF hits = {} THEN original_df[i]
          ELSE UpdateRow(original_df[i], edited_subset[CHOOSE j \in hits : TRUE])]

\* The pages with a daily log, the condition under which the page shows its
\* form and log, and the types of the rows its mask selects.
LogPages == {"Batch", "Mill", "Pot", "Sales", "Purchase"}

PageIsShown(page, m) ==
    CASE page = "Batch" -> raw_materials(m) # <<>>
      [] page = "Mill" -> TRUE
      [] page = "Pot" -> raw_materials(m) # <<>> \/ grades(m) # <<>>
      [] page = "Sales" -> /\ customers(m) # <<>>
                           /\ grades(m) # <<>> \/ raw_materials(m) # <<>>
      [] page = "Purchase" -> suppliers(m) # <<>> /\ raw_materials(m) # <<>>

MaskTypes(page) ==
    CASE page = "Batch" -> {"Batch_Consumption", "Batch_Production"}
      [] page = "Mill" -> {"Mill_Start", "Mill_Consumption", "Mill_Production"}
      [] page = "Pot" -> {"Pot_Consumption", "Pot_Production"}
      [] page = "Sales" -> {"Sales"}
      [] page = "Purchase" -> {"Purchase"}

daily_df(df, page, d) ==
    SelectSeq(df, LAMBDA r : r.Date = d /\ r.Type \in MaskTypes(page))

\* A row added in a dynamic editor: every cell empty.
BlankRow == Entry(NoDate, NA, NoId, NA, NA, 0, NA, NoId, NoMill, NA, NA)

\* The frames the user can leave in a daily log editor: untouched, or with one
\* change (a cell set, a cell cleared, a row deleted, a row added).
EditedDaily(daily) ==
    {daily}
    \cup {[daily EXCEPT ![i].Notes = "checked"] : i \in DOMAIN daily}
    \cup {[daily EXCEPT ![i].Quantity = @ + 1] : i \in DOMAIN daily}
    \cup {[daily EXCEPT ![i].Status = NA] : i \in DOMAIN daily}
    \cup {[daily EXCEPT ![i].Party_Name = NA] : i \in DOMAIN daily}
    \cup {SubSeq(daily, 1, i - 1) \o SubSeq(daily, i + 1, Len(daily)) :
             i \in DOMAIN daily}
    \cup {Append(daily, BlankRow)}

SaveUpdates ==
    LET df == Clean(trans) IN
    /\ edits < MaxEdits
    /\ \E page \in LogPages, d \in Dates :
         /\ PageIsShown(page, masters)
         /\ daily_df(df, page, d) # <<>>
         /\ \E edited_daily \in EditedDaily(daily_df(df, page, d)) :
              /\ CanReindex(edited_daily)
              /\ trans' = update_database_from_editor(df, edited_daily)
              /\ editor' = edited_daily
              /\ edits' = edits + 1
              /\ last' = [op |-> "Update", ok |-> TRUE, mill |-> NoMill]
              /\ UNCHANGED <<masters, now, sess>>

\* ------------------------------------------------------------------- spec
Next ==
    \/ Tick
    \/ SavePurchase
    \/ RecordSale
    \/ SaveBatch
    \/ StartMilling
    \/ AddToMill
    \/ FinishProcess
    \/ SavePotMix
    \/ AddMaster
    \/ SaveDatabaseChanges
    \/ SaveUpdates
    \/ \E s \in Sessions : BeginRun(s)
    \/ \E s \in Sessions : SavePurchaseRun(s)

\* Every page together. The claims are checked under the specifications
\* below, which keep the user on a group of pages: their state spaces are the
\* ones the bounds above let TLC finish.
Spec == Init /\ [][Next]_vars

\* The behaviours in which the user works on the Ball Mill and View Data pages.
NextMill ==
    \/ Tick
    \/ StartMilling
    \/ AddToMill
    \/ FinishProcess
    \/ SaveBatch
    \/ SaveDatabaseChanges

SpecMill == Init /\ [][NextMill]_vars

\* The behaviours in which the user works on the other recording pages.
NextStock ==
    \/ SavePurchase
    \/ RecordSale
    \/ SaveBatch
    \/ SavePotMix
    \/ AddMaster

SpecStock == Init /\ [][NextStock]_vars

\* The behaviours in which the user works the ball mills and records
\* purchases, sales and batches in between.
NextFloor ==
    \/ Tick
    \/ StartMilling
    \/ AddToMill
    \/ FinishProcess
    \/ SavePurchase
    \/ RecordSale
    \/ SaveBatch

SpecFloor == Init /\ [][NextFloor]_vars

\* The behaviours in which the user records purchases, sales and batches and
\* corrects rows in the daily logs and on the View Data page.
NextEdit ==
    \/ SavePurchase
    \/ RecordSale
    \/ SaveBatch
    \/ SaveUpdates
    \/ SaveDatabaseChanges

SpecEdit == Init /\ [][NextEdit]_vars

\* A new installation: load_transactions and load_masters find no files and
\* create them empty. The behaviours in which the master data is entered.
InitFresh ==
    /\ trans = <<>>
    /\ masters = <<>>
    /\ now = 0
    /\ edits = 0
    /\ last = [op |-> "Start", ok |-> TRUE, mill |-> NoMill]
    /\ editor = <<>>
    /\ sess = [s \in Sessions |-> IdleRun]

NextMaster == AddMaster

SpecMaster == InitFresh /\ [][NextMaster]_vars

\* The behaviours in which the browser sessions record purchases at the same
\* time: the load and the save of their script runs interleave.
NextSessions ==
    \/ \E s \in Sessions : BeginRun(s)
    \/ \E s \in Sessions : SavePurchaseRun(s)

SpecSessions == Init /\ [][NextSessions]_vars

\* ================================================================ claims
RecordingOps ==
    {"Purchase", "Sale", "Batch", "MillStart", "MillAdd", "MillFinish", "Pot",
     "AddMaster"}

\* The rows of `mill` in the order they were appended.
RowsOf(df, mill) == SelectSeq(df, LAMBDA r : r.Ball_Mill_ID = mill)

\* The last of the mill's rows in ascending (date, id) order: a row of the mill
\* that no other row of the mill comes after.
IsLastRow(df, mill, i) ==
    /\ df[i].Ball_Mill_ID = mill
    /\ \A j \in DOMAIN df :
         (j # i /\ df[j].Ball_Mill_ID = mill) => SortsBefore(df, j, i)

\* C1: after the Mill finish workflow has appended its row for an open mill M,
\* get_mill_status reports M available, not open, and without contents.
C1_FinishMakesAvailable ==
    (last.op = "MillFinish") =>
        LET df == Clean(trans)
        IN /\ last.mill \in available_mills(df)
           /\ last.mill \notin open_mills(df)
           /\ last.mill \notin DOMAIN mill_contents(df)

\* C2: after the Mill start workflow has appended its row for an available mill
\* M, get_mill_status reports M open and not available.
C2_StartMakesOpen ==
    (last.op = "MillStart") =>
        LET df == Clean(trans)
        IN /\ last.mill \in open_mills(df)
           /\ last.mill \notin available_mills(df)

\* The current cycle of a mill: its rows from its last appended Mill_Start on.
CycleOf(df, mill) ==
    LET rows == RowsOf(df, mill)
        starts == {n \in DOMAIN rows : rows[n].Type = "Mill_Start"}
        s == CHOOSE n \in starts : \A k \in starts : k <= n
    IN SubSeq(rows, s, Len(rows))

\* Mill start, then one or more Mill add-material, on the same or later dates.
StartThenAdds(df, mill) ==
    /\ \E i \in DOMAIN df : df[i].Ball_Mill_ID = mill /\ df[i].Type = "Mill_Start"
    /\ LET c == CycleOf(df, mill)
       IN /\ Len(c) >= 2
          /\ \A n \in 2..Len(c) :
               c[n].Type = "Mill_Consumption" /\ c[n].Date >= c[n - 1].Date

\* C3: for a mill with Mill start and then add-material rows recorded, the
\* derived contents are the Mill_Start row of the current cycle followed by every
\* row recorded after it, one contents row each, with absolute quantities.
C3_ContentsAreCurrentCycle ==
    \A m \in mills :
        (edits = 0 /\ StartThenAdds(Clean(trans), m)) =>
            LET df == Clean(trans)
                c == CycleOf(df, m)
            IN /\ m \in DOMAIN mill_contents(df)
               /\ mill_contents(df)[m] =
                    [n \in DOMAIN c |->
                       [Date |-> c[n].Date, Item_Name |-> c[n].Item_Name,
                        Quantity |-> Abs(c[n].Quantity), Unit |-> c[n].Unit]]

\* C4: a recording workflow appends a Mill_Start row only for a mill that
\* get_mill_status reports available on the ledger of that moment, and a
\* Mill_Consumption or Mill_Production row only for a mill it reports open.
C4_MillPreconditions ==
    [][(last'.op \in RecordingOps /\ trans' # trans) =>
         LET df == Clean(trans)
         IN \A i \in (Len(df) + 1)..Len(trans') :
              LET r == trans'[i]
              IN /\ r.Type = "Mill_Start" => r.Ball_Mill_ID \in available_mills(df)
                 /\ r.Type \in {"Mill_Consumption", "Mill_Production"} =>
                      r.Ball_Mill_ID \in open_mills(df)]_vars

\* A mill was started, loaded and finished by the workflows.
C4_Witness ==
    /\ edits = 0
    /\ last.op = "MillFinish"
    /\ \E i, j, k \in DOMAIN trans :
         /\ i < j /\ j < k
         /\ trans[i].Type = "Mill_Start" /\ trans[j].Type = "Mill_Consumption"
         /\ trans[k].Type = "Mill_Production"
         /\ trans[i].Ball_Mill_ID = last.mill /\ trans[j].Ball_Mill_ID = last.mill
         /\ trans[k].Ball_Mill_ID = last.mill

\* C5: on every ledger the open list and the available list are disjoint, their
\* union is the configured mill set, and every key of the contents mapping is
\* an open mill.
C5_StatusIsPartition ==
    LET df == Clean(trans)
    IN /\ open_mills(df) \cap available_mills(df) = {}
       /\ open_mills(df) \cup available_mills(df) = mills
       /\ DOMAIN mill_contents(df) \subseteq open_mills(df)

\* An edited ledger with an open mill that has contents, an open mill without
\* a Mill_Start row, or an available one.
C5_Witness ==
    LET df == Clean(trans)
    IN /\ edits > 0
       /\ DOMAIN mill_contents(df) # {}
       /\ available_mills(df) # {}
       /\ Len(df) >= 2

\* C6 as claimed: a mill is available exactly if it has no rows or the last of
\* them in (date, id) order has type Mill_Production or status Completed.
C6_AvailableIffMillProduction ==
    LET df == Clean(trans)
    IN \A m \in mills :
         m \in available_mills(df) <=>
            \/ RowsOf(df, m) = <<>>
            \/ \E i \in DOMAIN df :
                 /\ IsLastRow(df, m, i)
                 /\ df[i].Type = "Mill_Production" \/ df[i].Status = "Completed"

\* C6 amended: a mill is available exactly if it has no rows or the last of them
\* in (date, id) order has a type containing "Production" (Mill_Production, and
\* also Batch_Production or Pot_Production) or status Completed; otherwise it
\* is open.
C6_AvailableIffProductionType ==
    LET df == Clean(trans)
    IN \A m \in mills :
         /\ m \in available_mills(df) <=>
              \/ RowsOf(df, m) = <<>>
              \/ \E i \in DOMAIN df :
                   /\ IsLastRow(df, m, i)
                   /\ \/ df[i].Type \in {"Mill_Production", "Batch_Production",
                                         "Pot_Production"}
                      \/ df[i].Status = "Completed"
         /\ m \in open_mills(df) <=> m \notin available_mills(df)

\* A mill whose last row is a Batch_Production row without status is available,
\* beside a mill without rows.
C6_Witness ==
    LET df == Clean(trans)
    IN \E m, e \in mills :
         /\ RowsOf(df, e) = <<>> /\ e \in available_mills(df)
         /\ m \in available_mills(df)
         /\ \E i \in DOMAIN df :
              /\ IsLastRow(df, m, i)
              /\ df[i].Type = "Batch_Production" /\ df[i].Status # "Completed"

\* C7: in a ledger built by the recording workflows alone, the ID values of all
\* rows are pairwise distinct.
C7_IdsDistinct ==
    (edits = 0) =>
        \A i, j \in DOMAIN trans : i # j => trans[i].ID # trans[j].ID

SeqPrefixes == {"PUR", "SAL", "OPN", "BAT", "POT"}

IsPrefixOf(a, b) == Len(a) <= Len(b) /\ SubSeq(b, 1, Len(a)) = a

\* C8: when a step only appends rows, the id get_next_id generates afterwards
\* for a prefix has a sequence number not below the one generated before, and
\* strictly above it if the step used that id (for PUR, SAL, OPN, BAT and POT).
C8_NextIdIncreases ==
    [][(IsPrefixOf(trans, trans') /\ trans' # trans) =>
         \A p \in SeqPrefixes :
            LET before == get_next_id(Clean(trans), p)
                after == get_next_id(Clean(trans'), p)
                new == {trans'[i].ID : i \in (Len(trans) + 1)..Len(trans')}
            IN /\ after.num >= before.num
               /\ \A id \in new :
                    id.pfx = p => (id.num = before.num /\ after.num > id.num)]_vars

\* Two batches were recorded, the second with a larger sequence number.
C8_Witness ==
    /\ last.op = "Batch"
    /\ \E i, j \in DOMAIN trans :
         /\ i < j
         /\ trans[i].ID.pfx = "BAT" /\ trans[j].ID.pfx = "BAT"
         /\ trans[i].ID.num < trans[j].ID.num

\* The sum of the signed quantities of the rows of item `it` dated up to `d`.
RECURSIVE SignedTotal(_, _, _)
SignedTotal(df, it, d) ==
    IF df = <<>> THEN 0
    ELSE (IF df[1].Item_Name = it /\ df[1].Date <= d THEN df[1].Quantity ELSE 0)
         + SignedTotal(Tail(df), it, d)

ItemsUpTo(df, d) == {df[i].Item_Name : i \in {k \in DOMAIN df : df[k].Date <= d}} \ {NA}

ItemsOf(df) == {df[i].Item_Name : i \in DOMAIN df} \ {NA}

\* The rows of item `it` dated up to d are a Purchase of q and a Sale of q.
PurchaseThenSale(df, it, d) ==
    \E i, j \in DOMAIN df :
       /\ i < j
       /\ df[i].Type = "Purchase" /\ df[j].Type = "Sales"
       /\ df[i].Quantity > 0 /\ df[j].Quantity = -df[i].Quantity
       /\ \A k \in DOMAIN df :
            (df[k].Item_Name = it /\ df[k].Date <= d) <=> k \in {i, j}

\* C9: for every as-of date D and item I with a row dated on or before D, the
\* closing stock of I is the sum of the signed quantities of exactly the rows of
\* I dated <= D; a Purchase of Q followed by a Sale of Q gives 0.
C9_StockIsAsOfSum ==
    LET df == Clean(trans)
    IN \A d \in Dates :
         /\ DOMAIN stock_df(df, d) = ItemsUpTo(df, d)
         /\ \A it \in ItemsUpTo(df, d) :
              /\ stock_df(df, d)[it] = SignedTotal(df, it, d)
              /\ PurchaseThenSale(df, it, d) => stock_df(df, d)[it] = 0

\* A purchase and a sale of the same quantity up to the first date, and a row
\* of the same item dated after it.
C9_Witness ==
    LET df == Clean(trans)
    IN \E it \in ItemsOf(df) :
         /\ PurchaseThenSale(df, it, 1)
         /\ \E k \in DOMAIN df :
              df[k].Item_Name = it /\ df[k].Date > 1 /\ df[k].Quantity # 0

\* C10 as claimed: for every as-of date, every item name of a ledger row is in
\* exactly one of the two closing-stock buckets.
C10_EveryItemInOneBucket ==
    LET df == Clean(trans)
    IN \A d \in Dates : \A it \in ItemsOf(df) :
         (it \in RawBucket(df, d, masters)) # (it \in OtherBucket(df, d, masters))

\* C10 amended: for every as-of date D, every item name of a ledger row dated
\* on or before D is in exactly one of the two buckets, and an item whose rows
\* are all dated after D is in neither.
C10_ItemsUpToDateInOneBucket ==
    LET df == Clean(trans)
    IN \A d \in Dates : \A it \in ItemsOf(df) :
         IF it \in ItemsUpTo(df, d)
         THEN (it \in RawBucket(df, d, masters)) # (it \in OtherBucket(df, d, masters))
         ELSE it \notin RawBucket(df, d, masters) /\ it \notin OtherBucket(df, d, masters)

\* As of the first date one item is a raw material, one is not, and a third
\* has rows only after that date.
C10_Witness ==
    LET df == Clean(trans)
    IN /\ RawBucket(df, 1, masters) # {}
       /\ OtherBucket(df, 1, masters) # {}
       /\ ItemsOf(df) \ ItemsUpTo(df, 1) # {}

\* The ids of the rows of df are pairwise distinct.
DistinctIds(df) == \A i, j \in DOMAIN df : i # j => df[i].ID # df[j].ID

\* C11: after update_database_from_editor on a ledger with distinct ids, (i) each
\* row whose id occurs in the edited subset has every field equal to the edited
\* row's field, also a field that was cleared, (ii) each row whose id does not
\* occur in the subset is unchanged, and (iii) the ledger has the same rows in
\* the same order as before.
C11_UpdateOverwritesById ==
    [][(last'.op = "Update" /\ DistinctIds(Clean(trans))) =>
         LET df == Clean(trans)
         IN /\ Len(trans') = Len(df)
            /\ \A i \in DOMAIN df :
                 /\ trans'[i].ID = df[i].ID
                 /\ \A j \in DOMAIN editor' :
                      editor'[j].ID = df[i].ID => trans'[i] = editor'[j]
                 /\ (\A j \in DOMAIN editor' : editor'[j].ID # df[i].ID) =>
                      trans'[i] = df[i]]_vars

\* The rows a step has appended to the ledger it loaded.
NewRows(before, after) ==
    IF IsPrefixOf(Clean(before), after)
    THEN SubSeq(after, Len(Clean(before)) + 1, Len(after)) ELSE <<>>

\* C12: a workflow that rejects its input (Batch with no batches produced, Sale
\* without an item, Pot mixing with nothing to record, master add with an empty
\* or duplicate name) leaves the ledger and the master list as they were; the
\* two files change only in a workflow that succeeds, and a batch's consumption
\* rows are never appended without its production row.
C12_FailureChangesNothing ==
    [][/\ (last'.op \in RecordingOps /\ ~last'.ok) =>
            (trans' = trans /\ masters' = masters)
       /\ (trans' # trans \/ masters' # masters) => last'.ok
       /\ \A i \in DOMAIN NewRows(trans, trans') :
            LET r == NewRows(trans, trans')[i]
            IN r.Type = "Batch_Consumption" =>
                 \E k \in DOMAIN NewRows(trans, trans') :
                    /\ NewRows(trans, trans')[k].Type = "Batch_Production"
                    /\ NewRows(trans, trans')[k].Batch_ID = r.Batch_ID]_vars

\* A master add was rejected after rows were recorded and a master was added.
C12_Witness ==
    /\ last.op = "AddMaster" /\ ~last.ok
    /\ Len(trans) >= 2
    /\ Len(masters) > Len(SeedMasters)

\* C13: each (category, name) pair occurs at most once in the master list as
\* the program loads it, after any sequence of master add operations.
C13_MasterPairsUnique ==
    LET m == load_masters(masters)
    IN \A i, j \in DOMAIN m : i # j => m[i] # m[j]

\* C14: once a recording workflow has succeeded, a later read of the ledger
\* returns the rows it appended (no edit or overwrite by the user happens in
\* these behaviours), for every interleaving of the load and save steps of the
\* workflows of two browser sessions.
C14_NoAppendLost ==
    \A s \in Sessions : \A i \in DOMAIN sess[s].saved :
       \E j \in DOMAIN Clean(trans) : Clean(trans)[j] = sess[s].saved[i]

\* The ids of prefix p in df are exactly p-001 .. p-00n.
HasIdsOneTo(df, p, n) ==
    LET rows == {i \in DOMAIN df : df[i].ID.pfx = p}
    IN /\ Cardinality(rows) = n
       /\ \A i \in rows : df[i].ID.role = ""
       /\ {df[i].ID.num : i \in rows} = 1..n

WithoutRow(df, i) == SubSeq(df, 1, i - 1) \o SubSeq(df, i + 1, Len(df))

\* C15: from a ledger whose ids for a prefix are P-001 .. P-00n (n >= 2), after
\* one row other than P-00n is deleted the next id get_next_id generates for
\* the prefix is the id of a surviving row; after P-00n is deleted it is an id
\* no surviving row has.
C15_CollisionAfterDeletion ==
    [][\A p \in SeqPrefixes, n \in 2..MaxRows, i \in DOMAIN Clean(trans) :
         (/\ last'.op = "ViewData"
          /\ HasIdsOneTo(Clean(trans), p, n)
          /\ Clean(trans)[i].ID.pfx = p
          /\ trans' = WithoutRow(Clean(trans), i)) =>
            LET next_id == get_next_id(Clean(trans'), p)
                survives == \E j \in DOMAIN trans' : trans'[j].ID = next_id
            IN IF Clean(trans)[i].ID.num # n THEN survives ELSE ~survives]_vars

\* PUR-002 of three purchases was deleted on the View Data page: the next
\* purchase id is PUR-003, which a surviving row has.
C15_Witness ==
    /\ last.op = "ViewData"
    /\ Len(trans) = 2
    /\ \A j \in DOMAIN trans : trans[j].ID.pfx = "PUR" /\ trans[j].ID.num # 2
    /\ \E j \in DOMAIN trans : trans[j].ID = get_next_id(Clean(trans), "PUR")

PositiveTypes ==
    {"Purchase", "Batch_Production", "Mill_Production", "Pot_Production",
     "Opening Stock"}

NegativeTypes ==
    {"Sales", "Batch_Consumption", "Mill_Start", "Mill_Consumption",
     "Pot_Consumption"}

\* C16: every row appended by a recording workflow has a non-zero quantity of
\* the sign of its type, so a Purchase, Mill start or Mill add-material
\* submitted with quantity 0 has appended no row.
C16_QuantitySigns ==
    (edits = 0) =>
        \A i \in DOMAIN trans :
           /\ trans[i].Type \in PositiveTypes => trans[i].Quantity > 0
           /\ trans[i].Type \in NegativeTypes => trans[i].Quantity < 0

\* C17: a Mill start that loads n batches is accepted only when the closing
\* stock of "UF Lumps (Batches)" is at least n, so in a ledger built by the
\* recording workflows the summed quantity of that item is never negative.
C17_LumpsNeverNegative ==
    (edits = 0) =>
        SumQuantity(SelectSeq(Clean(trans), LAMBDA r : r.Item_Name = Lumps)) >= 0

GroupIds(df) == {df[i].Batch_ID : i \in DOMAIN df} \ {NoId}

GroupKinds == {"Batch", "Pot"}
ProductionOf(kind) == IF kind = "Batch" THEN "Batch_Production" ELSE "Pot_Production"
ConsumptionOf(kind) == IF kind = "Batch" THEN "Batch_Consumption" ELSE "Pot_Consumption"

\* The rows of group b are of one operation kind; `producers` are its
\* production rows.
GroupIsOfKind(df, b, kind) ==
    \A i \in DOMAIN df :
       df[i].Batch_ID = b => df[i].Type \in {ProductionOf(kind), ConsumptionOf(kind)}

Producers(df, b) ==
    {i \in DOMAIN df : df[i].Batch_ID = b
                        /\ df[i].Type \in {"Batch_Production", "Pot_Production"}}

C19_BatchRows ==
    [][(last'.op = "Batch") =>
         IF last'.ok
         THEN LET new == NewRows(trans, trans')
                  cons == SelectSeq(new, LAMBDA r : r.Type = "Batch_Consumption")
                  prod == SelectSeq(new, LAMBDA r : r.Type = "Batch_Production")
              IN /\ IsPrefixOf(Clean(trans), trans')
                 /\ Len(prod) = 1 /\ Len(new) = Len(cons) + 1
                 /\ prod[1].Item_Name = Lumps /\ prod[1].Quantity > 0
                 /\ \A k \in DOMAIN editor' :
                      LET of_k == {i \in DOMAIN cons : cons[i].ID.idx = k - 1}
                      IN /\ Cardinality(of_k) = IF editor'[k].Quantity > 0 THEN 1 ELSE 0
                         /\ \A i \in of_k :
                              /\ cons[i].Item_Name = editor'[k].Item
                              /\ cons[i].Quantity = -editor'[k].Quantity
                 /\ \A i \in DOMAIN cons : cons[i].ID.idx + 1 \in DOMAIN editor'
                 /\ \A i \in DOMAIN new :
                      /\ new[i].Batch_ID = prod[1].Batch_ID /\ new[i].Batch_ID # NoId
                      /\ new[i].Date = prod[1].Date
         ELSE trans' = trans /\ masters' = masters]_vars

\* A batch was saved from an editor of two materials, the first entered with a
\* quantity and the second as zero.
C19_Witness ==
    /\ last.op = "Batch" /\ last.ok
    /\ Len(editor) = 2
    /\ editor[1].Quantity > 0 /\ editor[2].Quantity = 0
    /\ Len(trans) >= 2
    /\ trans[Len(trans)].Type = "Batch_Production"
    /\ trans[Len(trans) - 1].Type = "Batch_Consumption"

\* C20: adding a new Material or Grade with opening quantity q > 0 appends one
\* row of type Opening_Stock with the new name as item, quantity q and unit Bags
\* for a Grade, Kg for a Material, after which the closing stock of the item as
\* of that day is q, under raw materials for a Material; with q = 0 or for a
\* Supplier or Customer no row is appended.
C20_OpeningStockSeeding ==
    [][(last'.op = "AddMaster" /\ last'.ok) =>
         LET q == editor'[1].Quantity
             added == masters'[Len(masters')]
             new == NewRows(trans, trans')
         IN IF added.Type \in {"Material", "Grade"} /\ q > 0
            THEN /\ Len(new) = 1
                 /\ new[1].Type = "Opening_Stock"
                 /\ new[1].Item_Name = added.Name
                 /\ new[1].Quantity = q
                 /\ new[1].Unit = (IF added.Type = "Grade" THEN "Bags" ELSE "Kg")
                 /\ added.Name \in DOMAIN stock_df(Clean(trans'), new[1].Date)
                 /\ stock_df(Clean(trans'), new[1].Date)[added.Name] = q
                 /\ added.Type = "Material" =>
                      added.Name \in RawBucket(Clean(trans'), new[1].Date, masters')
            ELSE trans' = trans]_vars

\* C21: a ledger row whose date cannot be parsed is left out of the stock and
\* mill computations but is still in the persisted ledger after a later
\* recording workflow, row update or full-view save has written the ledger back.
C21_UnparseableRowsStay ==
    [][\A i \in DOMAIN trans :
         trans[i].Date = NoDate =>
            /\ \E j \in DOMAIN trans' : trans'[j] = trans[i]
            /\ \A k \in DOMAIN Clean(trans) : Clean(trans)[k] # load_transactions(trans)[i]]_vars

\* C22: in a ledger built by the recording workflows, the rows of each mill in
\* append order form cycles Mill_Start, zero or more Mill_Consumption,
\* Mill_Production: the first row is a Mill_Start, a Mill_Production is followed
\* by a Mill_Start, and any other row by a Mill_Consumption or Mill_Production.
C22_MillCyclesAlternate ==
    (edits = 0) =>
        \A m \in mills :
           LET rows == RowsOf(Clean(trans), m)
           IN \A n \in DOMAIN rows :
                IF n = 1 \/ rows[IF n = 1 THEN 1 ELSE n - 1].Type = "Mill_Production"
                THEN rows[n].Type = "Mill_Start"
                ELSE rows[n].Type \in {"Mill_Consumption", "Mill_Production"}

\* C23: a recording workflow run on a ledger whose rows all have a parseable
\* date only appends: the persisted ledger before the workflow is a prefix of
\* the persisted ledger after it (no row changed, removed or reordered), and
\* the master list is changed by the master add workflow alone.
C23_RecordingOnlyAppends ==
    [][(last'.op \in RecordingOps /\ \A i \in DOMAIN trans : trans[i].Date # NoDate) =>
          /\ IsPrefixOf(trans, trans')
          /\ (masters' # masters => last'.op = "AddMaster")]_vars

\* What get_mill_status reports for one mill: whether it is open, whether it
\* is available, and its contents table (none when it has no entry).
MillReport(df, m) ==
    [open |-> m \in open_mills(df),
     available |-> m \in available_mills(df),
     contents |-> IF m \in ContentKeys(df) THEN mill_contents(df)[m] ELSE <<>>]

MillOps == {"MillStart", "MillAdd", "MillFinish"}

====
